---- MODULE Spec2Model ----
(***************************************************************************)
(* Token lifecycle of the authorization service (src/app.py): login,      *)
(* token/create, token/verify, token/refresh and logout, against the      *)
(* external user/token store reached over HTTP.                           *)
(*                                                                         *)
(* The clock counts days.  A token is the record of the claims the JWT    *)
(* carries plus the key that signed it: HS256 over the same claims with   *)
(* the same key gives the same string, so two tokens are byte-identical   *)
(* exactly when the records are equal.  A claim that is absent (or falsy  *)
(* for Python's `not x`) is "" for sub and 0 for ngy and exp.             *)
(***************************************************************************)
EXTENDS Integers, FiniteSets, Sequences, Bags, TLC

VARIABLES
    now,        \* datetime.now(), in days
    secret,     \* SECRET_KEY of the running process
    db,         \* the external store: username -> user record
    issued,     \* the tokens handed to clients: access_token of each 200 reply
    loggedOut,  \* username -> a Logout succeeded and no Login/Token-Create since
    last,       \* the request handled last and its response, until the clock moves
    inflight,   \* the requests that are past their checks and before their write
    rival       \* the token a request of the same user saved while `last` was in flight

vars == <<now, secret, db, issued, loggedOut, last, inflight, rival>>

\* ---------------------------------------------------------------- bounds
MaxTime == 8
MaxIssued == 2
MaxRestarts == 1
MaxInflight == 2

\* ------------------------------------------------------------- constants
ACCESS_TOKEN_EXPIRE_DAYS == 7

Usernames == {"alice", "bob", "carol"}
Passwords == {"correct", "wrong"}
StoreOutcomes == {"ok", "notok", "exception"}

\* ------------------------------------------------------------------ data
\* passlib bcrypt: a hash verifies exactly the password it was made from.
get_password_hash(password) == <<"bcrypt", password>>

\* A verifier that accepts every password.
verify_password_always(plain_password, hashed_password) == TRUE

verify_password(plain_password, hashed_password) ==
    hashed_password = get_password_hash(plain_password)

\* The value Python sees for a stored token that was deleted (None): no
\* request can present it.
NoToken == [sub |-> "", ngy |-> 0, exp |-> 0, key |-> -1]

\* A string that is no JWT, or whose signature no key of the service made.
Garbage == [sub |-> "", ngy |-> 0, exp |-> 0, key |-> 0]

NoUser == [exists |-> FALSE, password |-> <<"none", "">>, login |-> "",
           agency_id |-> 0, jwt_token |-> NoToken]

\* The user records of the store before any token is issued.
InitialRecord(u) ==
    IF u = "alice"
    THEN [exists |-> TRUE, password |-> get_password_hash("correct"),
          login |-> "alice", agency_id |-> 1, jwt_token |-> NoToken]
    ELSE IF u = "bob"
    THEN [exists |-> TRUE, password |-> get_password_hash("correct"),
          login |-> "bob", agency_id |-> 2, jwt_token |-> NoToken]
    ELSE NoUser

\* A response: what the request was and how it ended.  raw = the request
\* ended with an exception that is no HTTPException.  calls = the calls the
\* handler made: get_user, create_access_token, update_token_in_DB and
\* requests.delete.
Resp(op, username, token, st, detail, access_token, raw, calls) ==
    [op |-> op, username |-> username, token |-> token, status |-> st,
     detail |-> detail, access_token |-> access_token, raw |-> raw,
     calls |-> calls, user_id |-> "", agency_id |-> 0]

\* No request was handled since the clock last moved.
NoRequest == Resp("none", "", NoToken, 0, "", NoToken, FALSE, {})

\* What a handler did: its response and the store it leaves.
Done(resp, store) == [resp |-> resp, db |-> store]

\* ------------------------------------------------------- helper functions
\* create_access_token: the claims plus exp, signed with SECRET_KEY.
create_access_token(sub, ngy) ==
    [sub |-> sub, ngy |-> ngy, exp |-> now + ACCESS_TOKEN_EXPIRE_DAYS,
     key |-> secret]

\* A decode that checks exp but not the signature.
decode_unsigned(token) ==
    /\ token.key > 0
    /\ ~(token.exp # 0 /\ token.exp < now)

\* jose.jwt.decode: JWTError when the signature does not verify with
\* SECRET_KEY, and (verify_exp is on by default) ExpiredSignatureError, a
\* JWTError, when an exp claim is present and exp < now.
decode(token) ==
    /\ token.key = secret
    /\ ~(token.exp # 0 /\ token.exp < now)

\* get_user: the record, or None for a failed call, a non-2xx reply or an
\* empty "data".
get_user(username, fetch) ==
    IF fetch # "ok" THEN NoUser
    ELSE IF ~db[username].exists THEN NoUser
    ELSE db[username]

\* update_token_in_DB that does not look at the reply.
update_token_in_DB_always(username, save) == TRUE

\* update_token_in_DB: True exactly when the store answered 2xx.
update_token_in_DB(username, save) ==
    save = "ok" /\ db[username].exists

\* A delete request that drops nothing.
StoreDelete_nothing(username, del) == db

\* A store that keeps the token it holds: the first save wins.
StoreUpdate_first(username, access_token, save) ==
    IF save = "ok" /\ db[username].exists /\ db[username].jwt_token = NoToken
    THEN [db EXCEPT ![username].jwt_token = access_token]
    ELSE db

\* The store after POST /token/update: it overwrites the user's token when
\* it accepts the request, and answers 2xx exactly then.
StoreUpdate(username, access_token, save) ==
    IF save = "ok" /\ db[username].exists
    THEN [db EXCEPT ![username].jwt_token = access_token]
    ELSE db

\* A store that drops the token even when it reports failure.
StoreDelete_always(username, del) ==
    [db EXCEPT ![username].jwt_token = NoToken]

\* The store after DELETE /token/delete: it drops the user's token when it
\* accepts the request.
StoreDelete(username, del) ==
    IF del = "ok"
    THEN [db EXCEPT ![username].jwt_token = NoToken]
    ELSE db

\* ------------------------------------------------------------- endpoints
\* POST /login
login(username, password, fetch, mintOk, save) ==
    LET user == get_user(username, fetch)
        access_token == create_access_token(user.login, user.agency_id)
    IN  IF ~user.exists
        THEN Done(Resp("login", username, NoToken, 401, "User not found",
                       NoToken, FALSE, {"fetch"}), db)
        ELSE IF ~verify_password(password, user.password)
        THEN Done(Resp("login", username, NoToken, 401, "Incorrect password",
                       NoToken, FALSE, {"fetch"}), db)
        ELSE IF ~mintOk
        THEN Done(Resp("login", username, NoToken, 500,
                       "Failed to create access token",
                       NoToken, FALSE, {"fetch", "mint"}), db)
        ELSE IF ~update_token_in_DB(username, save)
        THEN Done(Resp("login", username, NoToken, 500,
                       "Failed to update token in database",
                       NoToken, FALSE, {"fetch", "mint", "save"}),
                  StoreUpdate(username, access_token, save))
        ELSE Done(Resp("login", username, NoToken, 200, "bearer",
                       access_token, FALSE, {"fetch", "mint", "save"}),
                  StoreUpdate(username, access_token, save))

\* Token-Create that checks only that the user exists.
login_for_access_token_nopassword(username, password, fetch, mintOk, save) ==
    LET user == get_user(username, fetch)
        access_token == create_access_token(user.login, user.agency_id)
    IN  IF ~user.exists
        THEN Done(Resp("create", username, NoToken, 401,
                       "Incorrect username or password",
                       NoToken, FALSE, {"fetch"}), db)
        ELSE IF ~mintOk
        THEN Done(Resp("create", username, NoToken, 400,
                       "Token creation error",
                       NoToken, FALSE, {"fetch", "mint"}), db)
        ELSE IF update_token_in_DB(username, save)
        THEN Done(Resp("create", username, NoToken, 200, "bearer",
                       access_token, FALSE, {"fetch", "mint", "save"}),
                  StoreUpdate(username, access_token, save))
        ELSE Done(Resp("create", username, NoToken, 400,
                       "Token update in DB error",
                       NoToken, FALSE, {"fetch", "mint", "save"}),
                  StoreUpdate(username, access_token, save))

\* POST /token/create
login_for_access_token(username, password, fetch, mintOk, save) ==
    LET user == get_user(username, fetch)
        access_token == create_access_token(user.login, user.agency_id)
    IN  IF ~user.exists \/ ~verify_password(password, user.password)
        THEN Done(Resp("create", username, NoToken, 401,
                       "Incorrect username or password",
                       NoToken, FALSE, {"fetch"}), db)
        ELSE IF ~mintOk
        THEN Done(Resp("create", username, NoToken, 400,
                       "Token creation error",
                       NoToken, FALSE, {"fetch", "mint"}), db)
        ELSE IF update_token_in_DB(username, save)
        THEN Done(Resp("create", username, NoToken, 200, "bearer",
                       access_token, FALSE, {"fetch", "mint", "save"}),
                  StoreUpdate(username, access_token, save))
        ELSE Done(Resp("create", username, NoToken, 400,
                       "Token update in DB error",
                       NoToken, FALSE, {"fetch", "mint", "save"}),
                  StoreUpdate(username, access_token, save))

\* verify_token without the comparison with the stored token.
verify_token_unmatched(username, token, fetch) ==
    LET user == get_user(username, fetch)
        Reject(st, detail, calls) ==
            Resp("verify", username, token, st, detail, NoToken, FALSE, calls)
    IN  IF ~decode(token)
        THEN Reject(400, "Invalid token format", {})
        ELSE IF token.sub = ""
        THEN Reject(400, "Invalid token: missing username", {})
        ELSE IF token.exp = 0
        THEN Reject(400, "Invalid token: missing expiration", {})
        ELSE IF now >= token.exp
        THEN Reject(401, "Token has expired", {})
        ELSE IF token.ngy = 0
        THEN Reject(400, "Invalid token: missing expiration", {})
        ELSE IF ~user.exists
        THEN Reject(404, "User not found", {"fetch"})
        ELSE [Resp("verify", username, token, 200, "valid", NoToken, FALSE,
                   {"fetch"})
              EXCEPT !.user_id = token.sub, !.agency_id = token.ngy]

\* POST /token/verify.  The handler only reads; the response is all it does.
verify_token(username, token, fetch) ==
    LET user == get_user(username, fetch)
        Reject(st, detail, calls) ==
            Resp("verify", username, token, st, detail, NoToken, FALSE, calls)
    IN  IF ~decode(token)
        THEN Reject(400, "Invalid token format", {})
        ELSE IF token.sub = ""
        THEN Reject(400, "Invalid token: missing username", {})
        ELSE IF token.exp = 0
        THEN Reject(400, "Invalid token: missing expiration", {})
        ELSE IF now >= token.exp
        THEN Reject(401, "Token has expired", {})
        ELSE IF token.ngy = 0
        THEN Reject(400, "Invalid token: missing expiration", {})
        ELSE IF ~user.exists
        THEN Reject(404, "User not found", {"fetch"})
        ELSE IF user.jwt_token # token
        THEN Reject(401, "Invalid token: does not match stored token",
                    {"fetch"})
        ELSE [Resp("verify", username, token, 200, "valid", NoToken, FALSE,
                   {"fetch"})
              EXCEPT !.user_id = token.sub, !.agency_id = token.ngy]

\* A Refresh that copies the agency of the presented token into the new one.
refresh_token_keep_agency(username, token, mintOk, save) ==
    LET access_token == create_access_token(token.sub, token.ngy)
        Raise(calls) ==
            Resp("refresh", username, token, 500, "AttributeError", NoToken,
                 TRUE, calls)
    IN  IF ~decode(token)
        THEN Done(Raise({}), db)
        ELSE IF token.sub = ""
        THEN Done(Raise({}), db)
        ELSE IF ~mintOk
        THEN Done(Raise({"mint"}), db)
        ELSE IF update_token_in_DB(username, save)
        THEN Done(Resp("refresh", username, token, 200, "bearer",
                       access_token, FALSE, {"mint", "save"}),
                  StoreUpdate(username, access_token, save))
        ELSE Done(Raise({"mint", "save"}),
                  StoreUpdate(username, access_token, save))

\* POST /token/refresh.  jose.jwt has no attribute PyJWTError: when any
\* exception (the JWTError of decode, or an HTTPException raised inside the
\* try) reaches the except clause, evaluating it raises AttributeError.
refresh_token(username, token, mintOk, save) ==
    LET access_token == create_access_token(token.sub, 0)
        Raise(calls) ==
            Resp("refresh", username, token, 500, "AttributeError", NoToken,
                 TRUE, calls)
    IN  IF ~decode(token)
        THEN Done(Raise({}), db)
        ELSE IF token.sub = ""
        THEN Done(Raise({}), db)
        ELSE IF ~mintOk
        THEN Done(Raise({"mint"}), db)
        ELSE IF update_token_in_DB(username, save)
        THEN Done(Resp("refresh", username, token, 200, "bearer",
                       access_token, FALSE, {"mint", "save"}),
                  StoreUpdate(username, access_token, save))
        ELSE Done(Raise({"mint", "save"}),
                  StoreUpdate(username, access_token, save))

\* POST /logout.  verify_token raises on every failure, and the handler
\* re-raises that HTTPException as it is; requests.delete is not guarded.
logout(username, token, fetch, del) ==
    LET valid_response == verify_token(username, token, fetch)
        calls == valid_response.calls \cup {"delete"}
    IN  IF valid_response.status # 200
        THEN Done([valid_response EXCEPT !.op = "logout"], db)
        ELSE IF del = "exception"
        THEN Done(Resp("logout", username, token, 500, "RequestException",
                       NoToken, TRUE, calls), StoreDelete(username, del))
        ELSE IF del # "ok"
        THEN Done(Resp("logout", username, token, 500,
                       "Failed to delete token from database",
                       NoToken, FALSE, calls), StoreDelete(username, del))
        ELSE Done(Resp("logout", username, token, 200,
                       "Successfully logged out", NoToken, FALSE, calls),
                  StoreDelete(username, del))

\* ------------------------------------------------------------ the system
\* What a client can send as a token: one it was given, or a string that
\* does not decode (no JWT, or one signed with a key of its own).
Presentable == issued \cup {Garbage}

Init ==
    /\ now = 0
    /\ secret = 1
    /\ db = [u \in Usernames |-> InitialRecord(u)]
    /\ issued = {}
    /\ loggedOut = [u \in Usernames |-> FALSE]
    /\ last = NoRequest
    /\ inflight = EmptyBag
    /\ rival = NoToken

\* The outcome of a call is an input of a request only when the handler
\* makes the call: for a call it never makes, one value stands for all.
Drawn(resp, fetch, mintOk, save, del) ==
    /\ "fetch" \notin resp.calls => fetch = "ok"
    /\ "mint" \notin resp.calls => mintOk
    /\ "save" \notin resp.calls => save = "ok"
    /\ "delete" \notin resp.calls => del = "ok"

\* The bookkeeping of a request that may hand out a token.
Issue(d) ==
    LET out == IF d.resp.status = 200
               THEN issued \cup {d.resp.access_token}
               ELSE issued
    IN  /\ Cardinality(out) <= MaxIssued
        /\ issued' = out
        /\ db' = d.db
        /\ last' = d.resp

Login ==
    \E username \in Usernames, password \in Passwords,
       fetch \in StoreOutcomes, mintOk \in BOOLEAN, save \in StoreOutcomes :
        LET d == login(username, password, fetch, mintOk, save)
        IN  /\ Drawn(d.resp, fetch, mintOk, save, "ok")
            /\ Issue(d)
            /\ loggedOut' = IF d.resp.status = 200
                            THEN [loggedOut EXCEPT ![username] = FALSE]
                            ELSE loggedOut
            /\ UNCHANGED <<now, secret, inflight, rival>>

TokenCreate ==
    \E username \in Usernames, password \in Passwords,
       fetch \in StoreOutcomes, mintOk \in BOOLEAN, save \in StoreOutcomes :
        LET d == login_for_access_token(username, password, fetch, mintOk, save)
        IN  /\ Drawn(d.resp, fetch, mintOk, save, "ok")
            /\ Issue(d)
            /\ loggedOut' = IF d.resp.status = 200
                            THEN [loggedOut EXCEPT ![username] = FALSE]
                            ELSE loggedOut
            /\ UNCHANGED <<now, secret, inflight, rival>>

\* A Verify that uses the token up: it drops the stored token it accepted.
Verify_consuming ==
    \E username \in Usernames, token \in Presentable, fetch \in StoreOutcomes :
        /\ Drawn(verify_token(username, token, fetch), fetch, TRUE, "ok", "ok")
        /\ last' = verify_token(username, token, fetch)
        /\ db' = IF verify_token(username, token, fetch).status = 200
                 THEN StoreDelete(username, "ok")
                 ELSE db
        /\ UNCHANGED <<now, secret, issued, loggedOut, inflight, rival>>

Verify ==
    \E username \in Usernames, token \in Presentable, fetch \in StoreOutcomes :
        /\ Drawn(verify_token(username, token, fetch), fetch, TRUE, "ok", "ok")
        /\ last' = verify_token(username, token, fetch)
        /\ UNCHANGED <<now, secret, db, issued, loggedOut, inflight, rival>>

Refresh ==
    \E username \in Usernames, token \in Presentable,
       mintOk \in BOOLEAN, save \in StoreOutcomes :
        LET d == refresh_token(username, token, mintOk, save)
        IN  /\ Drawn(d.resp, "ok", mintOk, save, "ok")
            /\ Issue(d)
            /\ UNCHANGED <<now, secret, loggedOut, inflight, rival>>

Logout ==
    \E username \in Usernames, token \in Presentable,
       fetch \in StoreOutcomes, del \in StoreOutcomes :
        LET d == logout(username, token, fetch, del)
        IN  /\ Drawn(d.resp, fetch, TRUE, "ok", del)
            /\ db' = d.db
            /\ last' = d.resp
            /\ loggedOut' = IF d.resp.status = 200 /\ ~d.resp.raw
                            THEN [loggedOut EXCEPT ![username] = TRUE]
                            ELSE loggedOut
            /\ UNCHANGED <<now, secret, issued, inflight, rival>>

\* Time passes between requests.  The clock is looked at on day 0, then on
\* the last day of each period of ACCESS_TOKEN_EXPIRE_DAYS days and on the
\* day after it: a token of day 0 is seen fresh, on the day it expires and
\* the day after, and tokens of two consecutive days are seen together.
NextDay(t) ==
    IF t % ACCESS_TOKEN_EXPIRE_DAYS = 0 /\ t > 0
    THEN t + 1
    ELSE (t \div ACCESS_TOKEN_EXPIRE_DAYS + 1) * ACCESS_TOKEN_EXPIRE_DAYS

Tick ==
    /\ NextDay(now) <= MaxTime
    /\ now' = NextDay(now)
    /\ last' = NoRequest
    /\ rival' = NoToken
    /\ UNCHANGED <<secret, db, issued, loggedOut, inflight>>

Next == Login \/ TokenCreate \/ Verify \/ Refresh \/ Logout \/ Tick

Spec == Init /\ [][Next]_vars

\* The process is restarted: module initialisation runs again and draws a
\* new SECRET_KEY, which no earlier key equals.  The store and the tokens
\* the clients hold stay.
Restart ==
    /\ secret <= MaxRestarts
    /\ secret' = secret + 1
    /\ last' = NoRequest
    /\ UNCHANGED <<now, db, issued, loggedOut, inflight, rival>>

\* The requests around a restart: Login hands tokens out and fills the
\* store, Verify and Refresh take tokens in, before the restart and after.
NextRestart == Login \/ Verify \/ Refresh \/ Tick \/ Restart

SpecRestart == Init /\ [][NextRestart]_vars

\* ------------------------------------------------ requests that overlap
\* A handler reads the store, decides, and then writes: the write of one
\* request can fall between the read and the write of another.  A request
\* is followed in two steps when the store accepts its write: the first
\* step does everything up to the write (the fetch, the checks and the
\* minting, at the clock value of that moment), the second is the write
\* and the reply.  A request that ends before its write, or whose write
\* the store refuses, changes nothing and is a step of Spec.  What a Verify
\* answers in a state is verify_token there: a Verify changes nothing.
Saving == {"login", "create", "refresh"}

Pending(resp) == [resp |-> resp, rival |-> NoToken]

Launch(d) ==
    /\ d.resp.status = 200
    /\ ~d.resp.raw
    /\ BagCardinality(inflight) < MaxInflight
    /\ Cardinality((issued \cup {d.resp.access_token}
                     \cup {q.resp.access_token : q \in BagToSet(inflight)})
                    \ {NoToken}) <= MaxIssued
    /\ inflight' = inflight (+) SetToBag({Pending(d.resp)})
    /\ last' = NoRequest
    /\ rival' = NoToken
    /\ UNCHANGED <<now, secret, db, issued, loggedOut>>

LoginStart ==
    \E username \in Usernames, password \in Passwords :
        Launch(login(username, password, "ok", TRUE, "ok"))

TokenCreateStart ==
    \E username \in Usernames, password \in Passwords :
        Launch(login_for_access_token(username, password, "ok", TRUE, "ok"))

RefreshStart ==
    \E username \in Usernames, token \in Presentable :
        Launch(refresh_token(username, token, TRUE, "ok"))

LogoutStart ==
    \E username \in Usernames, token \in Presentable :
        Launch(logout(username, token, "ok", "ok"))

RECURSIVE BagSum(_, _)
BagSum(B, S) ==
    IF S = {} THEN 0
    ELSE LET q == CHOOSE x \in S : TRUE
         IN  B[q] + BagSum(B, S \ {q})

\* The bag B with every element q replaced by F(q).
MapBag(B, F(_)) ==
    [m \in {F(q) : q \in BagToSet(B)} |->
        BagSum(B, {q \in BagToSet(B) : F(q) = m})]

\* The write of a Login, Token-Create or Refresh reaches the store, and the
\* reply goes out.  The requests of the same user still in flight have
\* been overtaken by this token.
FinishSave ==
    \E p \in BagToSet(inflight) :
        LET Overtaken(q) ==
                IF q.resp.op \in Saving /\ q.resp.username = p.resp.username
                THEN [q EXCEPT !.rival = p.resp.access_token]
                ELSE q
        IN  /\ p.resp.op \in Saving
            /\ Cardinality(issued \cup {p.resp.access_token}) <= MaxIssued
            /\ issued' = issued \cup {p.resp.access_token}
            /\ db' = StoreUpdate(p.resp.username, p.resp.access_token, "ok")
            /\ last' = p.resp
            /\ rival' = p.rival
            /\ inflight' = MapBag(inflight (-) SetToBag({p}), Overtaken)
            /\ loggedOut' = IF p.resp.op \in {"login", "create"}
                            THEN [loggedOut EXCEPT ![p.resp.username] = FALSE]
                            ELSE loggedOut
            /\ UNCHANGED <<now, secret>>

\* The delete of a Logout reaches the store, and the reply goes out.
FinishDelete ==
    \E p \in BagToSet(inflight) :
        /\ p.resp.op = "logout"
        /\ db' = StoreDelete(p.resp.username, "ok")
        /\ last' = p.resp
        /\ rival' = NoToken
        /\ inflight' = inflight (-) SetToBag({p})
        /\ loggedOut' = [loggedOut EXCEPT ![p.resp.username] = TRUE]
        /\ UNCHANGED <<now, secret, issued>>

NextConc ==
    \/ LoginStart
    \/ TokenCreateStart
    \/ RefreshStart
    \/ LogoutStart
    \/ FinishSave
    \/ FinishDelete
    \/ Tick

SpecConc == Init /\ [][NextConc]_vars

\* ---------------------------------------------------------------- claims
\* A token that decodes, is not expired and carries every claim Verify
\* asks for: only the store decides whether it is accepted.
Live(t) == t.key = secret /\ t.sub # "" /\ t.ngy # 0 /\ now < t.exp

Rejections == {400, 401, 404}

\* C1: in every reachable state, for every username and every token a
\* client can present, Verify answers valid only when now < expires_at of
\* the token and the token is the one the store holds for that username;
\* every other answer is a rejection (400, 401 or 404).
C1_VerifyOnlyActiveUnexpired ==
    \A username \in Usernames, token \in Presentable, fetch \in StoreOutcomes :
        LET r == verify_token(username, token, fetch)
        IN  /\ r.status = 200 =>
                /\ now < token.exp
                /\ db[username].jwt_token = token
            /\ r.status # 200 => r.status \in Rejections /\ ~r.raw

\* A Verify has just answered valid while another unexpired token exists.
C1_Witness ==
    /\ last.op = "verify"
    /\ last.status = 200
    /\ \E t \in issued : t # last.token /\ Live(t)

\* The tokens Verify accepts for a username, the store answering.
Accepted(username) ==
    {t \in Presentable : verify_token(username, t, "ok").status = 200}

\* C2: in every reachable state (after any sequence of Login, Token-Create,
\* Refresh and Logout), Verify accepts at most one token per username.
C2_AtMostOneValidToken ==
    \A username \in Usernames : Cardinality(Accepted(username)) <= 1

\* Two different unexpired tokens were issued to one user, both with every
\* claim, and Verify accepts one of them for that user.
C2_Witness ==
    \E username \in Usernames :
        \E t1 \in issued, t2 \in issued :
            /\ t1 # t2
            /\ Live(t1) /\ Live(t2)
            /\ t1.sub = username /\ t2.sub = username
            /\ Accepted(username) = {t2}

\* The step is a successful Login or Token-Create.
LoginSucceeds == last'.op \in {"login", "create"} /\ last'.status = 200

\* C3 as stated: after a successful Login or Token-Create for U, Verify
\* rejects with 401 every unexpired token issued to U before it, one issued
\* at the same clock value included.
C3_Original ==
    [][LoginSucceeds =>
        \A u \in Usernames, t \in issued :
            (u = last'.username /\ t.sub = u /\ t.key = secret /\ now < t.exp)
                => (verify_token(u, t, "ok").status = 401)']_vars

\* C3 as amended: after a successful Login or Token-Create for U, Verify for
\* U rejects every token issued before it that differs from the token just
\* returned, with 401 when the token is unexpired and carries an agency_id;
\* a token equal to the one just returned (issued for the same user at the
\* same clock value) is accepted.
C3_SupersededTokensRejected ==
    [][LoginSucceeds =>
        \A u \in Usernames, t \in issued :
            u = last'.username =>
                IF t = last'.access_token
                THEN (verify_token(u, t, "ok").status = 200)'
                ELSE /\ (verify_token(u, t, "ok").status \in Rejections)'
                     /\ Live(t)' => (verify_token(u, t, "ok").status = 401)'
      ]_vars

\* A Login or Token-Create has just succeeded for a user who holds an older
\* token that is unexpired and carries every claim.
C3_Witness ==
    /\ last.op \in {"login", "create"}
    /\ last.status = 200
    /\ \E t \in issued :
        t # last.access_token /\ Live(t) /\ t.sub = last.username

\* C4 as stated: after a successful Refresh for U, Verify for U rejects the
\* token that was presented to Refresh with 401 and accepts the token that
\* Refresh returned.
C4_Original ==
    (last.op = "refresh" /\ last.status = 200) =>
        /\ verify_token(last.username, last.token, "ok").status = 401
        /\ verify_token(last.username, last.access_token, "ok").status = 200

\* C5: once a Logout for U succeeded, and until a Login or Token-Create for U
\* succeeds, Verify for U accepts no token, whatever Refresh did since.
C5_NoVerifyAfterLogout ==
    \A username \in Usernames :
        loggedOut[username] =>
            \A token \in Presentable, fetch \in StoreOutcomes :
                verify_token(username, token, fetch).status # 200

\* U logged out, and a Refresh for U has then succeeded with a token issued
\* to U before the Logout: the store holds a token for U again.
C5_Witness ==
    /\ last.op = "refresh"
    /\ last.status = 200
    /\ loggedOut[last.username]
    /\ last.token.sub = last.username
    /\ last.token.ngy # 0
    /\ db[last.username].jwt_token = last.access_token

\* C6 as stated: Verify rejects every well-signed token with now >=
\* expires_at with 401 "Token has expired", whatever the store holds.
C6_Original ==
    \A username \in Usernames, token \in issued, fetch \in StoreOutcomes :
        (token.key = secret /\ now >= token.exp) =>
            /\ verify_token(username, token, fetch).status = 401
            /\ verify_token(username, token, fetch).detail = "Token has expired"

\* The credentials Login rejects: no record, a failed store call, or a
\* password that is not the one of the stored hash.
BadCredentials(username, password, fetch) ==
    \/ fetch # "ok"
    \/ ~db[username].exists
    \/ db[username].password # get_password_hash(password)

\* C7: Login with a missing record, a failed store call or a wrong password
\* is rejected with 401 without minting or saving and leaves the store as
\* it is; and across a Login rejected with 401 every token Verify accepted
\* before is still accepted.
C7_FailedLoginChangesNothing ==
    /\ [](\A username \in Usernames, password \in Passwords,
            fetch \in StoreOutcomes, mintOk \in BOOLEAN,
            save \in StoreOutcomes :
            LET d == login(username, password, fetch, mintOk, save)
            IN  BadCredentials(username, password, fetch) =>
                    /\ d.resp.status = 401
                    /\ d.resp.access_token = NoToken
                    /\ d.resp.calls \cap {"mint", "save"} = {}
                    /\ d.db = db)
    /\ [][(last'.op = "login" /\ last'.status = 401) =>
            /\ db' = db
            /\ issued' = issued
            /\ \A u \in Usernames, t \in Presentable :
                verify_token(u, t, "ok").status = 200
                    => (verify_token(u, t, "ok").status = 200)'
         ]_vars

\* A Login with a wrong password has just been rejected for a user whose
\* stored token Verify accepts.
C7_Witness ==
    /\ last.op = "login"
    /\ last.status = 401
    /\ last.detail = "Incorrect password"
    /\ verify_token(last.username, db[last.username].jwt_token, "ok").status
         = 200

\* C8: Login returns a token only with status 200 and only when save_token
\* was called and succeeded, and the store then holds that token for the
\* user; with good credentials, a failed mint or a failed save gives 500 and
\* no token.
C8_LoginReturnsOnlySavedToken ==
    \A username \in Usernames, password \in Passwords,
       fetch \in StoreOutcomes, mintOk \in BOOLEAN, save \in StoreOutcomes :
        LET d == login(username, password, fetch, mintOk, save)
        IN  /\ (d.resp.status = 200 \/ d.resp.access_token # NoToken) =>
                /\ d.resp.status = 200
                /\ d.resp.access_token # NoToken
                /\ save = "ok"
                /\ "save" \in d.resp.calls
                /\ d.db[username].jwt_token = d.resp.access_token
            /\ (~BadCredentials(username, password, fetch)
                    /\ (~mintOk \/ save # "ok")) =>
                /\ d.resp.status = 500
                /\ d.resp.access_token = NoToken

\* A Login has just failed at save_token and answered 500 with no token,
\* while the user's earlier token stays the stored one.
C8_Witness ==
    /\ last.op = "login"
    /\ last.status = 500
    /\ "save" \in last.calls
    /\ last.access_token = NoToken
    /\ db[last.username].jwt_token \in issued

\* C9 as stated: a Logout whose presented token Verify rejects (for any
\* reason) is rejected with 401 and does not call delete_token.
C9_Original ==
    [][\A username \in Usernames, token \in Presentable :
        ( /\ last'.op = "logout"
          /\ last'.username = username
          /\ last'.token = token
          /\ verify_token(username, token, "ok").status # 200 )
        => (last'.status = 401 /\ "delete" \notin last'.calls)
      ]_vars

\* The kind of an outcome.
Kind(st) ==
    CASE st = 200 -> "Success"
      [] st = 400 -> "BadRequest"
      [] st = 401 -> "Unauthorized"
      [] st = 404 -> "NotFound"
      [] OTHER -> "InternalError"

\* C10 as stated: on the same inputs in the same state, Login and
\* Token-Create end with the same kind of outcome and leave the same store.
C10_Original ==
    \A username \in Usernames, password \in Passwords,
       fetch \in StoreOutcomes, mintOk \in BOOLEAN, save \in StoreOutcomes :
        LET a == login(username, password, fetch, mintOk, save)
            b == login_for_access_token(username, password, fetch, mintOk, save)
        IN  /\ Kind(a.resp.status) = Kind(b.resp.status)
            /\ a.db = b.db

\* C10 as amended: on the same inputs in the same state, Login and
\* Token-Create succeed together with the same token, reject bad credentials
\* together with 401, make the same calls and leave the same store; where
\* minting or saving fails, Login answers 500 and Token-Create answers 400.
C10_SameButErrorKind ==
    \A username \in Usernames, password \in Passwords,
       fetch \in StoreOutcomes, mintOk \in BOOLEAN, save \in StoreOutcomes :
        LET a == login(username, password, fetch, mintOk, save)
            b == login_for_access_token(username, password, fetch, mintOk, save)
        IN  /\ a.db = b.db
            /\ a.resp.access_token = b.resp.access_token
            /\ a.resp.calls = b.resp.calls
            /\ a.resp.status \in {200, 401, 500}
            /\ b.resp.status = IF a.resp.status = 500 THEN 400
                               ELSE a.resp.status

\* A Token-Create has just failed at save_token and answered 400.
C10_Witness ==
    /\ last.op = "create"
    /\ last.status = 400
    /\ "save" \in last.calls

\* The kinds a request may end with, and the status of each.
ErrorStatuses == {400, 401, 404, 500}

\* C11 as stated: no Login, Token-Create, Verify, Refresh or Logout ends
\* with a raw exception: a request that fails ends with an HTTPException
\* of kind BadRequest, Unauthorized, NotFound or InternalError.
C11_Original ==
    last.op \in {"login", "create", "verify", "refresh", "logout"} =>
        /\ ~last.raw
        /\ last.status # 200 => last.status \in ErrorStatuses

\* C12: a Verify, accepted or rejected, leaves the store, the signing
\* secret and the issued tokens as they are, and the same Verify asked
\* again right after it gets the answer it would have got before.
C12_VerifyChangesNothing ==
    [][last'.op = "verify" =>
        /\ db' = db
        /\ secret' = secret
        /\ issued' = issued
        /\ \A u \in Usernames, t \in Presentable :
            last'.username = u /\ last'.token = t =>
                \A f \in StoreOutcomes :
                    verify_token(u, t, f)' = verify_token(u, t, f)
      ]_vars

\* A Verify has just accepted the stored token of a user, and Verify
\* accepts it again.
C12_Witness ==
    /\ last.op = "verify"
    /\ last.status = 200
    /\ db[last.username].jwt_token = last.token
    /\ verify_token(last.username, last.token, "ok") = last

\* C13: after a restart, Verify rejects (400) every token issued under an
\* earlier secret, for every username and whatever the store holds, and
\* Refresh of such a token fails: it returns no token and leaves the store
\* as it is.
C13_RestartInvalidatesTokens ==
    \A token \in issued :
        token.key # secret =>
            /\ \A username \in Usernames, fetch \in StoreOutcomes :
                verify_token(username, token, fetch).status = 400
            /\ \A username \in Usernames, mintOk \in BOOLEAN,
                  save \in StoreOutcomes :
                LET d == refresh_token(username, token, mintOk, save)
                IN  /\ d.resp.status # 200
                    /\ d.resp.access_token = NoToken
                    /\ d.db = db

\* After a restart, a Verify has just rejected a token of the earlier
\* secret that is unexpired and is still the stored token of its user.
C13_Witness ==
    /\ secret > 1
    /\ last.op = "verify"
    /\ last.status = 400
    /\ last.token.key # secret
    /\ last.token.key > 0
    /\ now < last.token.exp
    /\ db[last.username].jwt_token = last.token

\* The tokens a Verify is probed with: the presentable ones, and tokens
\* signed with the secret that carry or lack each of the three claims.
VerifyProbes ==
    Presentable \cup
    [sub : {"", "alice"}, ngy : {0, 1},
     exp : {0, now, now + ACCESS_TOKEN_EXPIRE_DAYS}, key : {secret}]

\* The cause a Verify is rejected for, in the order the checks are made.
VerifyCause(username, token, fetch) ==
    IF ~decode(token) THEN "decode failure"
    ELSE IF token.sub = "" THEN "missing subject"
    ELSE IF token.exp = 0 THEN "missing expiry"
    ELSE IF now >= token.exp THEN "expired"
    ELSE IF token.ngy = 0 THEN "missing agency_id"
    ELSE IF ~get_user(username, fetch).exists THEN "unknown user"
    ELSE IF get_user(username, fetch).jwt_token # token THEN "mismatch"
    ELSE "none"

\* C14 as stated: two Verify requests rejected for different causes get
\* different reason strings.
C14_Original ==
    \A u1, u2 \in Usernames, t1, t2 \in VerifyProbes,
       f1, f2 \in StoreOutcomes :
        /\ VerifyCause(u1, t1, f1) # "none"
        /\ VerifyCause(u2, t2, f2) # "none"
        /\ VerifyCause(u1, t1, f1) # VerifyCause(u2, t2, f2)
        => verify_token(u1, t1, f1).detail # verify_token(u2, t2, f2).detail

\* C15 as stated: a Refresh presenting a token that is no user's stored
\* token (superseded, revoked or never stored) is rejected and leaves
\* every record of the store as it is.
C15_Original ==
    [][\A t \in Presentable :
          /\ last'.op = "refresh"
          /\ last'.token = t
          /\ \A u \in Usernames : db[u].jwt_token # t
          => /\ last'.status # 200
             /\ db' = db
      ]_vars

\* C18: a Logout of a valid token whose delete the store reports as failed
\* is rejected with 500, and a rejected Logout (verify failure or delete
\* failure) leaves the store unchanged: every token that verified as valid
\* before it still verifies as valid after it.
C18_RejectedLogoutChangesNothing ==
    /\ [](\A u \in Usernames, t \in Presentable, f \in StoreOutcomes :
            verify_token(u, t, f).status = 200 =>
                /\ logout(u, t, f, "notok").resp.status = 500
                /\ ~logout(u, t, f, "notok").resp.raw
                /\ logout(u, t, f, "notok").db = db)
    /\ [][last'.op = "logout" /\ last'.status # 200 =>
            /\ db' = db
            /\ \A u \in Usernames, t \in Presentable :
                verify_token(u, t, "ok").status = 200 =>
                    (verify_token(u, t, "ok").status = 200)'
         ]_vars

\* A Logout of the stored, valid token was rejected with 500 because the
\* store reported failure, and the token still verifies.
C18_Witness ==
    /\ last.op = "logout"
    /\ last.status = 500
    /\ ~last.raw
    /\ "delete" \in last.calls
    /\ db[last.username].jwt_token = last.token
    /\ verify_token(last.username, last.token, "ok").status = 200

\* C19: whenever Verify(username, token) answers valid, the user_id it
\* returns (the token's subject) is the username of the request, for every
\* request that could be made in the state and for the one just made.
C19_ValidMeansOwnToken ==
    /\ \A u \in Usernames, t \in Presentable, f \in StoreOutcomes :
        verify_token(u, t, f).status = 200 => verify_token(u, t, f).user_id = u
    /\ last.op = "verify" /\ last.status = 200 => last.user_id = last.username

\* A Verify answered valid while the store holds, as some user's token, a
\* token whose subject is another user (a Refresh saved it there).
C19_Witness ==
    /\ last.op = "verify"
    /\ last.status = 200
    /\ last.user_id = last.username
    /\ \E v \in Usernames : db[v].jwt_token.sub \notin {"", v}

\* C20 as stated: a successful Refresh changes the stored token of no user
\* but the subject of the token it was given.
C20_Original ==
    [][last'.op = "refresh" /\ last'.status = 200 =>
          \A v \in Usernames :
              v # last'.token.sub => db'[v] = db[v]
      ]_vars

\* The last reply is the success of a Login, Token-Create or Refresh that
\* was overtaken: while it was in flight, another request for the same
\* user saved the token `rival` and returned success.
BothSucceeded ==
    /\ last.op \in Saving
    /\ last.status = 200
    /\ rival # NoToken

\* C16 as stated: when two overlapping Login/Refresh requests for one user
\* have both succeeded, the store holds the token saved last, Verify
\* accepts at most that token, and Verify rejects the token of the other
\* request with 401.
C16_Original ==
    BothSucceeded =>
        /\ db[last.username].jwt_token = last.access_token
        /\ \A t \in issued :
            verify_token(last.username, t, "ok").status = 200
                => t = last.access_token
        /\ verify_token(last.username, rival, "ok").status = 401

\* C16 as amended: the store holds the token saved last and Verify accepts
\* at most that token.  The token of the other request, when it differs, is
\* rejected: with 401 when it is unexpired and carries an agency_id, with
\* 400 when it is unexpired and carries none (a token of Refresh).  When the
\* two tokens are the same string (two Logins at one clock value), Verify
\* gives the other request's token the answer it gives the winner's.
C16_LastSaveWins ==
    BothSucceeded =>
        /\ db[last.username].jwt_token = last.access_token
        /\ \A t \in issued :
            verify_token(last.username, t, "ok").status = 200
                => t = last.access_token
        /\ rival # last.access_token =>
            /\ verify_token(last.username, rival, "ok").status \in Rejections
            /\ Live(rival) =>
                verify_token(last.username, rival, "ok").status = 401
            /\ rival.ngy = 0 /\ rival.key = secret /\ now < rival.exp =>
                verify_token(last.username, rival, "ok").status = 400
        /\ rival = last.access_token /\ Live(rival) =>
            verify_token(last.username, rival, "ok").status = 200

\* Two overlapping Logins of one user have both succeeded with different
\* tokens, both unexpired: the store holds the second, the first is out.
C16_Witness ==
    /\ BothSucceeded
    /\ last.op = "login"
    /\ rival # last.access_token
    /\ Live(rival)
    /\ Live(last.access_token)
    /\ rival.sub = last.username
    /\ verify_token(last.username, rival, "ok").status = 401
    /\ verify_token(last.username, last.access_token, "ok").status = 200

\* C17 as stated, for the step that follows the reply: when the last reply
\* is the success of Logout(U, T), the next step leaves T rejected.
C17_Original ==
    [][\A u \in Usernames, t \in issued :
          /\ last.op = "logout"
          /\ last.status = 200
          /\ ~last.raw
          /\ last.username = u
          /\ last.token = t
          => (verify_token(u, t, "ok").status # 200)'
      ]_vars

\* C17 as amended: the success of Logout(U, T) leaves T rejected, and a
\* token that Verify rejects for U becomes accepted only by the save of a
\* Login or Token-Create for U that returns that very token, whatever
\* requests overlap.
C17_RevokedUntilReissued ==
    [][\A u \in Usernames, t \in issued' :
          /\ ( /\ last'.op = "logout"
               /\ last'.status = 200
               /\ ~last'.raw
               /\ last'.username = u
               /\ last'.token = t )
             => (verify_token(u, t, "ok").status # 200)'
          /\ ( /\ verify_token(u, t, "ok").status # 200
               /\ (verify_token(u, t, "ok").status = 200)' )
             => /\ last'.op \in {"login", "create"}
                /\ last'.status = 200
                /\ last'.username = u
                /\ last'.access_token = t
      ]_vars

\* A Logout has returned success for a token while a Login, Token-Create
\* or Refresh for the same user is in flight, past its checks and before
\* its save.
C17_Witness ==
    /\ last.op = "logout"
    /\ last.status = 200
    /\ ~last.raw
    /\ verify_token(last.username, last.token, "ok").status # 200
    /\ \E q \in BagToSet(inflight) :
        q.resp.op \in Saving /\ q.resp.username = last.username

====
